---- MODULE Spec2Model ----
(***************************************************************************)
(* Model of the hand tracking recorder (scripts/http_hand_tracking_server) *)
(* and of the log replay (scripts/http_hand_tracking_replay).              *)
(*                                                                         *)
(* A log file is a sequence of lines; a line is the sequence of JSON       *)
(* tokens json.dumps produced for one record.  json.loads is a parser over *)
(* those tokens.  Clock values are integer ticks.                          *)
(***************************************************************************)
EXTENDS Integers, Sequences, FiniteSets, TLC

\* ------------------------------------------------------------------ bounds
MaxTime == 2            \* the clock stops advancing here
MaxMsgs == 2            \* data entries written to one session
MaxSessions == 2        \* log files opened in one behaviour
NumHandlers == 2        \* request handlers that can be in flight together
MaxPasses == 2          \* passes of a looping replay
MaxJunk == 1            \* lines of a log that are no record
MaxPending == 1         \* lines a file object holds after flushes that raised
TicksPerSecond == 2     \* clock ticks per second of the "%H%M%S" file name

\* -------------------------------------------------------------- JSON values
\* One shape for every value, so that any two values can be compared.
JNull == [t |-> "null", n |-> 0, s |-> "", pairs |-> <<>>]
JNum(n) == [t |-> "num", n |-> n, s |-> "", pairs |-> <<>>]
JStr(s) == [t |-> "str", n |-> 0, s |-> s, pairs |-> <<>>]
\* a dict: its items in insertion order, each [k |-> key, v |-> value]
JObj(pairs) == [t |-> "obj", n |-> 0, s |-> "", pairs |-> pairs]
KV(k, v) == [k |-> k, v |-> v]

\* dict.get(key): the value stored under key, None when absent
Get(e, key) ==
  LET hits == { i \in 1..Len(e.pairs) : e.pairs[i].k = key }
  IN IF hits = {} THEN JNull ELSE e.pairs[CHOOSE i \in hits : TRUE].v

HasKey(e, key) == \E i \in 1..Len(e.pairs) : e.pairs[i].k = key

\* Python truthiness of a decoded JSON value
Truthy(v) ==
  CASE v.t = "null" -> FALSE
    [] v.t = "num" -> v.n # 0
    [] v.t = "str" -> v.s # ""
    [] v.t = "obj" -> v.pairs # <<>>

\* d[key] = value on a dict: replaces in place, or appends a new item
SetKey(pairs, k, v) ==
  IF \E i \in 1..Len(pairs) : pairs[i].k = k
  THEN [i \in 1..Len(pairs) |-> IF pairs[i].k = k THEN KV(k, v) ELSE pairs[i]]
  ELSE Append(pairs, KV(k, v))

\* ------------------------------------------------------------------ tokens
TPunct(c) == [k |-> "punct", s |-> c, n |-> 0]
TStr(s) == [k |-> "str", s |-> s, n |-> 0]
TNum(n) == [k |-> "num", s |-> "", n |-> n]
TNullTok == [k |-> "null", s |-> "", n |-> 0]

IsPunct(tok, c) == tok.k = "punct" /\ tok.s = c

\* json.dumps(value): the token sequence of one value
RECURSIVE Dumps(_)
RECURSIVE DumpsPairs(_, _)
\* the items of a dict from the i-th on, separated by commas
DumpsPairs(pairs, i) ==
  IF i > Len(pairs) THEN <<>>
  ELSE (IF i > 1 THEN <<TPunct(",")>> ELSE <<>>)
       \o <<TStr(pairs[i].k), TPunct(":")>> \o Dumps(pairs[i].v)
       \o DumpsPairs(pairs, i + 1)
Dumps(v) ==
  CASE v.t = "null" -> <<TNullTok>>
    [] v.t = "num" -> <<TNum(v.n)>>
    [] v.t = "str" -> <<[k |-> "str", s |-> v.s, n |-> v.n]>>
    [] v.t = "obj" -> <<TPunct("{")>> \o DumpsPairs(v.pairs, 1) \o <<TPunct("}")>>

\* json.loads: recursive descent over the tokens.  ParseValue(toks, i) reads
\* one value starting at token i: [ok, v, next].
ParseFail == [ok |-> FALSE, v |-> JNull, next |-> 0]
RECURSIVE ParseValue(_, _)
RECURSIVE ParseMembers(_, _, _)
\* toks[i] is the first token of a member "key : value"; acc the items so far
ParseMembers(toks, i, acc) ==
  IF i + 1 > Len(toks) \/ toks[i].k # "str" \/ ~IsPunct(toks[i + 1], ":")
  THEN ParseFail
  ELSE LET r == ParseValue(toks, i + 2)
       IN IF ~r.ok \/ r.next > Len(toks) THEN ParseFail
          ELSE LET acc2 == SetKey(acc, toks[i].s, r.v)
               IN IF IsPunct(toks[r.next], "}")
                  THEN [ok |-> TRUE, v |-> JObj(acc2), next |-> r.next + 1]
                  ELSE IF IsPunct(toks[r.next], ",")
                       THEN ParseMembers(toks, r.next + 1, acc2)
                       ELSE ParseFail
ParseValue(toks, i) ==
  IF i > Len(toks) THEN ParseFail
  ELSE CASE toks[i].k = "null" -> [ok |-> TRUE, v |-> JNull, next |-> i + 1]
         [] toks[i].k = "num" -> [ok |-> TRUE, v |-> JNum(toks[i].n), next |-> i + 1]
         [] toks[i].k = "str" -> [ok |-> TRUE, v |-> [JStr(toks[i].s) EXCEPT !.n = toks[i].n],
                                  next |-> i + 1]
         [] toks[i].k = "punct" ->
              IF ~IsPunct(toks[i], "{") THEN ParseFail
              ELSE IF i + 1 <= Len(toks) /\ IsPunct(toks[i + 1], "}")
                   THEN [ok |-> TRUE, v |-> JObj(<<>>), next |-> i + 2]
                   ELSE ParseMembers(toks, i + 1, <<>>)

\* json.loads(line): [ok |-> FALSE] stands for json.JSONDecodeError
Loads(line) ==
  LET r == ParseValue(line, 1)
  IN IF r.ok /\ r.next = Len(line) + 1 THEN [ok |-> TRUE, v |-> r.v]
     ELSE [ok |-> FALSE, v |-> JNull]

\* ---------------------------------------------------------------- recorder
VARIABLES
  server,     \* the HandTrackingServer instance: its fields
  files,      \* the log directory: file name -> lines written (and flushed)
  now,        \* the wall clock, in ticks
  opened,     \* file objects created so far (object identity of a handle)
  open_files, \* the file objects that are open: their identities
  recorded,   \* history: payloads of the entries written through the current handle
  last,       \* outcome of the last call: what it returned or raised
  handlers,   \* request handlers running /control: position and locals of each
  replay,     \* the replay run: position and locals of replay_log
  sink        \* the requests the replay has posted to /control, in order

recorderVars == <<server, files, now, opened, open_files, recorded, last>>
replayVars == <<replay, sink>>
vars == <<server, files, now, opened, open_files, recorded, last, handlers, replay, sink>>

None == -1
\* a file object; set = FALSE is the attribute holding None.  pending holds
\* the lines write() took that no flush has brought to the file yet, and torn
\* says that the head of the first of them stands at the end of the file.
NoHandle == [set |-> FALSE, id |-> 0, path |-> None, closed |-> TRUE,
             pending |-> <<>>, torn |-> FALSE]

\* open(path, 'w'): the file object
NewHandle(hid, name) ==
  [set |-> TRUE, id |-> hid, path |-> name, closed |-> FALSE,
   pending |-> <<>>, torn |-> FALSE]

\* HandTrackingServer.__init__
InitServer ==
  [log_file |-> None, log_handle |-> NoHandle, message_count |-> 0,
   start_time |-> None, serving |-> FALSE]

\* payloads a caller hands to log_data / a client posts to /control
Payloads ==
  { JObj(<<>>),
    JObj(<<KV("type", JStr("metadata")), KV("leftHand", JNum(1))>>) }

\* the payloads that are truthy: control() takes them, the filter of
\* replay_log keeps them
TruthyPayloads == { data \in Payloads : Truthy(data) }

\* datetime.now().strftime("%Y%m%d_%H%M%S"): the clock at one second resolution
FileName(t) == t \div TicksPerSecond

\* datetime.now().isoformat()
IsoFormat(t) == [t |-> "str", n |-> t, s |-> "iso", pairs |-> <<>>]

\* open(path, 'w'): creates the file or truncates it
OpenW(fs, name) ==
  [n \in DOMAIN fs \cup {name} |-> IF n = name THEN <<>> ELSE fs[n]]

\* the lines of the file of h that are whole
WholeLines(h, fs) ==
  IF h.torn THEN SubSeq(fs[h.path], 1, Len(fs[h.path]) - 1) ELSE fs[h.path]

\* a flush that succeeds: what the buffer of h holds reaches the file
Flushed(h, fs) == [fs EXCEPT ![h.path] = WholeLines(h, fs) \o h.pending]

\* handle.close() of a file object, as start_new_log calls it
FileClose(h, fs) ==
  IF h.set /\ ~h.closed /\ h.pending # <<>> THEN Flushed(h, fs) ELSE fs

\* handle.write(line); handle.flush(): ValueError on a closed file object
FileWrite(h, fs, line) ==
  IF ~h.set \/ h.closed THEN [fs |-> fs, raised |-> TRUE, h |-> h]
  ELSE [fs |-> [Flushed(h, fs) EXCEPT ![h.path] = Append(@, line)], raised |-> FALSE,
        h |-> [h EXCEPT !.pending = <<>>, !.torn = FALSE]]

\* the bytes of a line the file took before the flush raised
Fragment(line) == SubSeq(line, 1, 2)

\* handle.write(line); handle.flush() when flush raises OSError (disk full):
\* the buffer keeps what the file did not take, for the next flush
FileWriteFails(h, fs, line, torn) ==
  IF ~h.set \/ h.closed THEN [fs |-> fs, raised |-> TRUE, h |-> h]
  ELSE IF h.pending # <<>>
  THEN [fs |-> fs, raised |-> TRUE, h |-> [h EXCEPT !.pending = Append(@, line)]]
  ELSE [fs |-> IF torn THEN [fs EXCEPT ![h.path] = Append(@, Fragment(line))] ELSE fs,
        raised |-> TRUE,
        h |-> [h EXCEPT !.pending = <<line>>, !.torn = torn]]

\* the "metadata" record start_new_log writes
Metadata(t) ==
  JObj(<<KV("type", JStr("metadata")), KV("timestamp", JNum(t)),
         KV("datetime", IsoFormat(t)), KV("version", JStr("1.0"))>>)

\* start_new_log that keeps the old message counter
start_new_log_keep_count(s, fs, t, hid) ==
  LET name == FileName(t)
      h == NewHandle(hid, name)
  IN [s |-> [s EXCEPT !.log_file = name, !.log_handle = h, !.start_time = t],
      fs |-> FileWrite(h, OpenW(fs, name), Dumps(Metadata(t))).fs]

\* HandTrackingServer.start_new_log; hid is the identity of the new file object
start_new_log(s, fs, t, hid) ==
  LET name == FileName(t)
      h == NewHandle(hid, name)
  IN [s |-> [s EXCEPT !.log_file = name, !.log_handle = h,
                      !.message_count = 0, !.start_time = t],
      fs |-> FileWrite(h, OpenW(FileClose(s.log_handle, fs), name), Dumps(Metadata(t))).fs]

\* handle.close(): the file object is open no longer
FileCloseOpen(h, open) == open \ {h.id}

\* a start_new_log that drops the old file object without closing it
start_new_log_open_leak(s, open, hid) == open \cup {hid}

\* start_new_log, the file objects open after it: the old one is closed when
\* the attribute holds one, then the new one is opened
start_new_log_open(s, open, hid) ==
  (IF s.log_handle.set THEN FileCloseOpen(s.log_handle, open) ELSE open) \cup {hid}

\* log_data, first statement: open a log when the handle attribute is None
LogDataOpen(s, fs, t, hid) ==
  IF ~s.log_handle.set THEN start_new_log(s, fs, t, hid) ELSE [s |-> s, fs |-> fs]

\* a log_entry that numbers the messages from 1
LogEntryFromOne(s, t, data) ==
  JObj(<<KV("server_timestamp", JNum(t)), KV("message_index", JNum(s.message_count + 1)),
         KV("data", data)>>)

\* log_data: the log_entry dict
LogEntry(s, t, data) ==
  JObj(<<KV("server_timestamp", JNum(t)), KV("message_index", JNum(s.message_count)),
         KV("data", data)>>)

\* log_data: the store of self.message_count += 1, after the load of loaded
CountStore(s, loaded) == [s EXCEPT !.message_count = loaded + 1]

\* log_data: self.message_count += 1
CountIncr(s) == CountStore(s, s.message_count)

\* HandTrackingServer.log_data, run without interruption
log_data(s, fs, t, hid, data) ==
  LET o == LogDataOpen(s, fs, t, hid)
      w == FileWrite(o.s.log_handle, o.fs, Dumps(LogEntry(o.s, t, data)))
  IN IF w.raised THEN [s |-> o.s, fs |-> o.fs, raised |-> TRUE]
     ELSE [s |-> CountIncr([o.s EXCEPT !.log_handle = w.h]), fs |-> w.fs, raised |-> FALSE]

\* log_data when the flush of the entry raises: the exception leaves log_data
\* before self.message_count += 1
log_data_fails(s, fs, t, hid, data, torn) ==
  LET o == LogDataOpen(s, fs, t, hid)
      w == FileWriteFails(o.s.log_handle, o.fs, Dumps(LogEntry(o.s, t, data)), torn)
  IN [s |-> [o.s EXCEPT !.log_handle = w.h], fs |-> w.fs, raised |-> TRUE]

\* a session_end record that counts itself
SessionEndCountsItself(s, t) ==
  JObj(<<KV("type", JStr("session_end")), KV("timestamp", JNum(t)),
         KV("datetime", IsoFormat(t)), KV("total_messages", JNum(s.message_count + 1)),
         KV("duration", JNum(IF s.start_time # None /\ s.start_time # 0
                                THEN t - s.start_time ELSE 0))>>)

\* the "session_end" record shutdown writes
SessionEnd(s, t) ==
  JObj(<<KV("type", JStr("session_end")), KV("timestamp", JNum(t)),
         KV("datetime", IsoFormat(t)), KV("total_messages", JNum(s.message_count)),
         KV("duration", JNum(IF s.start_time # None /\ s.start_time # 0
                                THEN t - s.start_time ELSE 0))>>)

\* a shutdown that writes its record and leaves the file open
shutdown_leaves_open(s, fs, t) ==
  LET s1 == [s EXCEPT !.serving = FALSE]
  IN IF s.log_handle.set
     THEN LET w == FileWrite(s.log_handle, fs, Dumps(SessionEnd(s, t)))
          IN [s |-> [s1 EXCEPT !.log_handle = w.h], fs |-> w.fs, raised |-> w.raised]
     ELSE [s |-> s1, fs |-> fs, raised |-> FALSE]

\* HandTrackingServer.shutdown: the handle attribute keeps the closed file object
shutdown(s, fs, t) ==
  LET s1 == [s EXCEPT !.serving = FALSE]
  IN IF s.log_handle.set
     THEN LET w == FileWrite(s.log_handle, fs, Dumps(SessionEnd(s, t)))
          IN IF w.raised THEN [s |-> s1, fs |-> fs, raised |-> TRUE]
             ELSE [s |-> [s1 EXCEPT !.log_handle = [w.h EXCEPT !.closed = TRUE]],
                   fs |-> w.fs, raised |-> FALSE]
     ELSE [s |-> s1, fs |-> fs, raised |-> FALSE]

\* ------------------------------------------------- calls, one at a time
Outcome(op, raised, status, idx) ==
  [op |-> op, raised |-> raised, status |-> status, message_index |-> idx]

\* a handler between two requests
IdleHandler == [pc |-> "idle", data |-> JNull, entry |-> JNull, loaded |-> 0]
Handlers == 1..NumHandlers

\* no replay started
ReplayIdle ==
  [pc |-> "idle", path |-> None, speed |-> [num |-> 1, den |-> 1], loop |-> FALSE,
   data_entries |-> <<>>, iteration |-> 0, start_time |-> 0, first_timestamp |-> JNull,
   i |-> 0, failed |-> 0, error |-> "", at |-> "", health |-> "ok",
   latest |-> FALSE, log_file |-> None]

Init ==
  /\ server = InitServer
  /\ files = <<>>
  /\ now = 1
  /\ opened = 0
  /\ open_files = {}
  /\ recorded = <<>>
  /\ last = Outcome("init", FALSE, 0, None)
  /\ handlers = [h \in Handlers |-> IdleHandler]
  /\ replay = ReplayIdle
  /\ sink = <<>>

\* time passes between two calls
Tick ==
  /\ now < MaxTime
  /\ now' = now + 1
  /\ UNCHANGED <<server, files, opened, open_files, recorded, last>>
  /\ UNCHANGED <<handlers, replayVars>>

\* run(): make_server and the serving thread
Run ==
  /\ ~server.serving
  /\ server' = [server EXCEPT !.serving = TRUE]
  /\ last' = Outcome("run", FALSE, 0, None)
  /\ UNCHANGED <<files, now, opened, open_files, recorded>>
  /\ UNCHANGED <<handlers, replayVars>>

\* a direct call of start_new_log()
StartNewLog ==
  /\ opened < MaxSessions
  /\ LET r == start_new_log(server, files, now, opened + 1)
     IN /\ server' = r.s
        /\ files' = r.fs
  /\ opened' = opened + 1
  /\ open_files' = start_new_log_open(server, open_files, opened + 1)
  /\ recorded' = <<>>
  /\ last' = Outcome("start_new_log", FALSE, 0, None)
  /\ UNCHANGED <<now, handlers, replayVars>>

\* POST /reset
Reset ==
  /\ server.serving
  /\ opened < MaxSessions
  /\ LET r == start_new_log(server, files, now, opened + 1)
     IN /\ server' = r.s
        /\ files' = r.fs
  /\ opened' = opened + 1
  /\ open_files' = start_new_log_open(server, open_files, opened + 1)
  /\ recorded' = <<>>
  /\ last' = Outcome("reset", FALSE, 200, server.message_count)
  /\ UNCHANGED <<now, handlers, replayVars>>

\* the state after log_data(data), shared by the direct call and the route
LogDataStep(data, r) ==
  /\ server' = r.s
  /\ files' = r.fs
  /\ opened' = IF server.log_handle.set THEN opened ELSE opened + 1
  /\ open_files' = IF server.log_handle.set THEN open_files
                   ELSE start_new_log_open(server, open_files, opened + 1)
  /\ recorded' = LET base == IF server.log_handle.set THEN recorded ELSE <<>>
                 IN IF r.raised THEN base ELSE Append(base, data)
  /\ UNCHANGED now

\* a direct call of log_data(data)
LogData(data) ==
  /\ server.message_count < MaxMsgs
  /\ server.log_handle.set \/ opened < MaxSessions
  /\ LET r == log_data(server, files, now, opened + 1, data)
     IN /\ LogDataStep(data, r)
        /\ last' = Outcome("log_data", r.raised, 0, None)
  /\ UNCHANGED <<handlers, replayVars>>

\* control(), the summary after log_data: `'leftHand' in data` raises
\* TypeError on a number, and data.get raises AttributeError on a string
\* that names a hand
SummaryRaises(data) ==
  \/ data.t = "num"
  \/ data.t = "str" /\ data.s \in {"leftHand", "rightHand"}

\* POST /control with body data
Control(data) ==
  /\ server.serving
  /\ server.message_count < MaxMsgs
  /\ server.log_handle.set \/ opened < MaxSessions
  /\ IF ~Truthy(data)
     THEN /\ last' = Outcome("control", FALSE, 400, None)
          /\ UNCHANGED <<server, files, now, opened, open_files, recorded>>
     ELSE LET r == log_data(server, files, now, opened + 1, data)
          IN /\ LogDataStep(data, r)
             /\ last' = IF r.raised \/ SummaryRaises(data)
                        THEN Outcome("control", FALSE, 500, None)
                        ELSE Outcome("control", FALSE, 200, r.s.message_count)
  /\ UNCHANGED <<handlers, replayVars>>

\* a call of shutdown()
Shutdown ==
  /\ LET r == shutdown(server, files, now)
     IN /\ server' = r.s
        /\ files' = r.fs
        /\ last' = Outcome("shutdown", r.raised, 0, None)
        /\ open_files' = IF server.log_handle.set /\ ~r.raised
                         THEN FileCloseOpen(server.log_handle, open_files)
                         ELSE open_files
  /\ UNCHANGED <<now, opened, recorded>>
  /\ UNCHANGED <<handlers, replayVars>>

Next ==
  \/ Tick
  \/ Run
  \/ StartNewLog
  \/ Reset
  \/ \E data \in Payloads : LogData(data)
  \/ \E data \in Payloads : Control(data)
  \/ Shutdown

\* The server make_server builds handles one request at a time.
Spec == Init /\ [][Next]_vars

\* the JSON bodies a client can post: get_json() takes any JSON value
Bodies == Payloads \cup {JNum(5), JStr("leftHand")}

\* The routes of the server, one request at a time, with any JSON body.
NextRoutes ==
  \/ Tick
  \/ Run
  \/ Reset
  \/ \E data \in Bodies : Control(data)
  \/ Shutdown

SpecRoutes == Init /\ [][NextRoutes]_vars

\* ------------------------------------------- handlers running concurrently
\* The app served with one thread per request: a handler can be preempted
\* between any two statements of control() and log_data().

\* the handlers that have not written their entry yet
Writing == { h \in Handlers : handlers[h].pc \in {"open", "entry", "write"} }

\* control(): data = request.get_json(); the 400 answer for a falsy body
HBegin(h, data) ==
  /\ handlers[h].pc = "idle"
  /\ Len(recorded) + Cardinality(Writing) < MaxMsgs
  /\ IF ~Truthy(data)
     THEN /\ last' = Outcome("control", FALSE, 400, None)
          /\ UNCHANGED handlers
     ELSE /\ handlers' = [handlers EXCEPT ![h] = [IdleHandler EXCEPT !.pc = "open", !.data = data]]
          /\ UNCHANGED last
  /\ UNCHANGED <<server, files, now, opened, open_files, recorded, replayVars>>

\* log_data: if not self.log_handle: self.start_new_log()
HOpen(h) ==
  /\ handlers[h].pc = "open"
  /\ server.log_handle.set \/ opened < MaxSessions
  /\ LET o == LogDataOpen(server, files, now, opened + 1)
     IN /\ server' = o.s
        /\ files' = o.fs
  /\ opened' = IF server.log_handle.set THEN opened ELSE opened + 1
  /\ open_files' = IF server.log_handle.set THEN open_files
                   ELSE start_new_log_open(server, open_files, opened + 1)
  /\ recorded' = IF server.log_handle.set THEN recorded ELSE <<>>
  /\ handlers' = [handlers EXCEPT ![h].pc = "entry"]
  /\ UNCHANGED <<now, last, replayVars>>

\* log_data: log_entry = {...}
HEntry(h) ==
  /\ handlers[h].pc = "entry"
  /\ handlers' = [handlers EXCEPT ![h].pc = "write",
                                  ![h].entry = LogEntry(server, now, handlers[h].data)]
  /\ UNCHANGED <<server, files, now, opened, open_files, recorded, last, replayVars>>

\* log_data: write and flush; an exception ends the request with a 500
HWrite(h) ==
  /\ handlers[h].pc = "write"
  /\ LET w == FileWrite(server.log_handle, files, Dumps(handlers[h].entry))
     IN /\ files' = w.fs
        /\ IF w.raised
           THEN /\ handlers' = [handlers EXCEPT ![h] = IdleHandler]
                /\ last' = Outcome("control", FALSE, 500, None)
                /\ UNCHANGED recorded
           ELSE /\ handlers' = [handlers EXCEPT ![h].pc = "load"]
                /\ recorded' = Append(recorded, handlers[h].data)
                /\ UNCHANGED last
  /\ UNCHANGED <<server, now, opened, open_files, replayVars>>

\* log_data: self.message_count += 1, the load
HLoad(h) ==
  /\ handlers[h].pc = "load"
  /\ handlers' = [handlers EXCEPT ![h].pc = "store", ![h].loaded = server.message_count]
  /\ UNCHANGED <<server, files, now, opened, open_files, recorded, last, replayVars>>

\* log_data: self.message_count += 1, the store
HStore(h) ==
  /\ handlers[h].pc = "store"
  /\ server' = CountStore(server, handlers[h].loaded)
  /\ handlers' = [handlers EXCEPT ![h].pc = "respond"]
  /\ UNCHANGED <<files, now, opened, open_files, recorded, last, replayVars>>

\* control(): the 200 answer with server.message_count
HRespond(h) ==
  /\ handlers[h].pc = "respond"
  /\ last' = Outcome("control", FALSE, 200, server.message_count)
  /\ handlers' = [handlers EXCEPT ![h] = IdleHandler]
  /\ UNCHANGED <<server, files, now, opened, open_files, recorded, replayVars>>

NextThreaded ==
  \/ Tick
  \/ \E h \in Handlers : \E data \in Payloads : HBegin(h, data)
  \/ \E h \in Handlers : HOpen(h)
  \/ \E h \in Handlers : HEntry(h)
  \/ \E h \in Handlers : HWrite(h)
  \/ \E h \in Handlers : HLoad(h)
  \/ \E h \in Handlers : HStore(h)
  \/ \E h \in Handlers : HRespond(h)

SpecThreaded == Init /\ [][NextThreaded]_vars

\* ------------------------------------- reset and shutdown beside a request
\* the handler of the request in flight
RaceHandler == 1

\* One /control request at a time runs statement by statement, while
\* /reset and shutdown() run in other threads, each without interruption.
NextRace ==
  \/ Tick
  \/ Run
  \/ Reset
  \/ Shutdown
  \/ \E data \in TruthyPayloads : HBegin(RaceHandler, data)
  \/ HOpen(RaceHandler)
  \/ HEntry(RaceHandler)
  \/ HWrite(RaceHandler)
  \/ HLoad(RaceHandler)
  \/ HStore(RaceHandler)
  \/ HRespond(RaceHandler)

SpecRace == Init /\ [][NextRace]_vars

\* ------------------------------------------------------------------ replay
\* load_log_file: the lines json.loads accepts, decoded, in file order
load_log_file(fs, path) ==
  IF path \notin DOMAIN fs THEN [found |-> FALSE, entries |-> <<>>]
  ELSE LET all == [k \in 1..Len(fs[path]) |-> Loads(fs[path][k])]
           ok == SelectSeq(all, LAMBDA r : r.ok)
       IN [found |-> TRUE, entries |-> [k \in 1..Len(ok) |-> ok[k].v]]

\* a record that is no dict has no .get: AttributeError in the comprehensions
AllDicts(entries) == \A k \in 1..Len(entries) : entries[k].t = "obj"

\* a filter that keeps every decoded record
DataEntriesAll(entries) == entries

\* replay_log: data_entries = [e for e in entries if e.get('data')]
DataEntries(entries) == SelectSeq(entries, LAMBDA e : Truthy(Get(e, "data")))

\* replay_log: metadata_entries
MetadataEntries(entries) ==
  SelectSeq(entries, LAMBDA e : Get(e, "type") \in {JStr("metadata"), JStr("session_end")})

\* a loop that walks data_entries from the end
EntryAtReversed(es, i) == es[Len(es) - i]

\* the for loop's entry number i (0-based) of data_entries
EntryAt(es, i) == es[i + 1]

\* --speed values, as fractions
Speeds == { [num |-> 1, den |-> 1], [num |-> 2, den |-> 1], [num |-> 1, den |-> 2] }

\* scaled_delay > current_elapsed, with scaled_delay = original_delay / speed
ScaledExceeds(original_delay, speed, current_elapsed) ==
  IF speed.num > 0 THEN original_delay * speed.den > current_elapsed * speed.num
  ELSE original_delay * speed.den < current_elapsed * speed.num

\* a sleep that returns one tick too early when the delay is no whole tick
WakeTimeEarly(start_time, original_delay, speed) ==
  start_time + ((original_delay * speed.den) \div speed.num)

\* the first clock tick at which time.sleep(scaled_delay - current_elapsed) has
\* returned: start_time + scaled_delay, rounded up to a tick
WakeTime(start_time, original_delay, speed) ==
  LET a == IF speed.num > 0 THEN original_delay * speed.den ELSE 0 - original_delay * speed.den
      b == IF speed.num > 0 THEN speed.num ELSE 0 - speed.num
  IN start_time - ((0 - a) \div b)

\* what a POST to the sink can do: the answer and the ticks it took
PostOutcomes ==
  { [result |-> "ok", latency |-> 0],
    [result |-> "status", latency |-> 0],
    [result |-> "exception", latency |-> TicksPerSecond] }

ReplayRaise(r, err) == [r EXCEPT !.pc = "raised", !.error = err]

\* replay_log without the return for an empty selection
replay_log_begin_unchecked(fs, path, speed, loop) ==
  LET l == load_log_file(fs, path)
      r == [ReplayIdle EXCEPT !.path = path, !.speed = speed, !.loop = loop]
  IN IF ~l.found THEN ReplayRaise(r, "FileNotFoundError")
     ELSE IF ~AllDicts(l.entries) THEN ReplayRaise(r, "AttributeError")
     ELSE [r EXCEPT !.pc = "iter", !.data_entries = DataEntries(l.entries)]

\* replay_log up to the while loop: load, filter, show the metadata
replay_log_begin(fs, path, speed, loop) ==
  LET l == load_log_file(fs, path)
      r == [ReplayIdle EXCEPT !.path = path, !.speed = speed, !.loop = loop]
  IN IF ~l.found THEN ReplayRaise(r, "FileNotFoundError")
     ELSE IF ~AllDicts(l.entries) THEN ReplayRaise(r, "AttributeError")
     ELSE IF DataEntries(l.entries) = <<>> THEN [r EXCEPT !.pc = "done"]
     ELSE IF \E k \in 1..Len(MetadataEntries(l.entries)) :
               /\ Get(MetadataEntries(l.entries)[k], "type") = JStr("session_end")
               /\ Get(MetadataEntries(l.entries)[k], "duration").t # "num"
     THEN ReplayRaise(r, "TypeError")
     ELSE [r EXCEPT !.pc = "iter", !.data_entries = DataEntries(l.entries)]

\* a direct call of replay_log(log_path, speed, loop)
ReplayLog(path, speed, loop) ==
  /\ replay.pc = "idle"
  /\ replay' = replay_log_begin(files, path, speed, loop)
  /\ UNCHANGED <<recorderVars, handlers, sink>>

\* the head of the while loop: the anchor of this pass
IterStart ==
  /\ replay.pc = "iter"
  /\ replay.iteration < MaxPasses
  /\ replay' =
       IF replay.data_entries = <<>> THEN ReplayRaise(replay, "IndexError")
       ELSE IF ~HasKey(replay.data_entries[1], "server_timestamp")
       THEN ReplayRaise(replay, "KeyError")
       ELSE [replay EXCEPT !.pc = "wait", !.iteration = @ + 1, !.start_time = now,
                           !.first_timestamp = Get(replay.data_entries[1], "server_timestamp"),
                           !.i = 0, !.failed = 0]
  /\ UNCHANGED <<recorderVars, handlers, sink>>

\* a schedule that starts the delay of an entry anew after a failed POST
NextDispatchTimeAfterFailure(r, t) ==
  LET entry == EntryAt(r.data_entries, r.i)
      original_delay == Get(entry, "server_timestamp").n - r.first_timestamp.n
  IN IF r.failed > 0 THEN WakeTime(t, original_delay, r.speed)
     ELSE IF ScaledExceeds(original_delay, r.speed, t - r.start_time)
     THEN WakeTime(r.start_time, original_delay, r.speed)
     ELSE t

\* a schedule that sleeps to the target time without comparing it to the clock
NextDispatchTimeUnguarded(r, t) ==
  LET entry == EntryAt(r.data_entries, r.i)
      original_delay == Get(entry, "server_timestamp").n - r.first_timestamp.n
  IN WakeTime(r.start_time, original_delay, r.speed)

\* the clock when the POST of entry r.i starts: after the sleep, if there is one
NextDispatchTime(r, t) ==
  LET entry == EntryAt(r.data_entries, r.i)
      original_delay == Get(entry, "server_timestamp").n - r.first_timestamp.n
      current_elapsed == t - r.start_time
  IN IF ScaledExceeds(original_delay, r.speed, current_elapsed)
     THEN WakeTime(r.start_time, original_delay, r.speed)
     ELSE t

\* the for loop body up to the sleep
Wait ==
  /\ replay.pc = "wait"
  /\ LET entry == EntryAt(replay.data_entries, replay.i)
     IN IF ~HasKey(entry, "server_timestamp")
        THEN replay' = ReplayRaise(replay, "KeyError") /\ UNCHANGED now
        ELSE IF Get(entry, "server_timestamp").t # "num" \/ replay.first_timestamp.t # "num"
        THEN replay' = ReplayRaise(replay, "TypeError") /\ UNCHANGED now
        ELSE IF replay.speed.num = 0
        THEN replay' = ReplayRaise(replay, "ZeroDivisionError") /\ UNCHANGED now
        ELSE /\ replay' = [replay EXCEPT !.pc = "send"]
             /\ now' = NextDispatchTime(replay, now)
  /\ UNCHANGED <<server, files, opened, open_files, recorded, last, handlers, sink>>

\* a POST that is sent again when it fails
SendRetriesFailure(outcome) ==
  /\ replay.pc = "send"
  /\ LET entry == EntryAt(replay.data_entries, replay.i)
     IN sink' = Append(sink, [body |-> Dumps(Get(entry, "data")),
                              pass |-> replay.iteration,
                              index |-> Get(entry, "message_index").n])
  /\ now' = now + outcome.latency
  /\ replay' = IF outcome.result # "ok" THEN [replay EXCEPT !.failed = @ + 1]
               ELSE IF replay.i + 1 < Len(replay.data_entries)
               THEN [replay EXCEPT !.pc = "wait", !.i = @ + 1]
               ELSE [replay EXCEPT !.pc = "pass_end"]
  /\ UNCHANGED <<server, files, opened, open_files, recorded, last, handlers>>

\* the POST of one entry and the end of the for loop body; a status other
\* than 200 and a RequestException are logged
Send(outcome) ==
  /\ replay.pc = "send"
  /\ LET entry == EntryAt(replay.data_entries, replay.i)
     IN sink' = Append(sink, [body |-> Dumps(Get(entry, "data")),
                              pass |-> replay.iteration,
                              index |-> Get(entry, "message_index").n])
  /\ now' = now + outcome.latency
  /\ LET f == IF outcome.result = "ok" THEN replay.failed ELSE replay.failed + 1
     IN replay' = IF replay.i + 1 < Len(replay.data_entries)
                  THEN [replay EXCEPT !.pc = "wait", !.i = @ + 1, !.failed = f]
                  ELSE [replay EXCEPT !.pc = "pass_end", !.failed = f]
  /\ UNCHANGED <<server, files, opened, open_files, recorded, last, handlers>>

\* after the for loop: return, or sleep 2 seconds and go round again
\* an end of pass that returns whatever loop says
PassEndAlwaysBreaks ==
  /\ replay.pc = "pass_end"
  /\ replay' = [replay EXCEPT !.pc = "done"]
  /\ UNCHANGED <<recorderVars, handlers, sink>>

PassEnd ==
  /\ replay.pc = "pass_end"
  /\ IF ~replay.loop
     THEN replay' = [replay EXCEPT !.pc = "done"] /\ UNCHANGED now
     ELSE replay' = [replay EXCEPT !.pc = "iter"] /\ now' = now + 2 * TicksPerSecond
  /\ UNCHANGED <<server, files, opened, open_files, recorded, last, handlers, sink>>

\* a handler of the interrupt that posts the entry at hand once more
InterruptRepostsEntry ==
  /\ replay.pc \in {"iter", "wait", "send", "pass_end"}
  /\ replay' = [replay EXCEPT !.pc = "interrupted", !.at = replay.pc]
  /\ sink' = IF replay.data_entries = <<>> THEN sink
             ELSE LET entry == EntryAt(replay.data_entries, replay.i)
                  IN Append(sink, [body |-> Dumps(Get(entry, "data")),
                                   pass |-> replay.iteration,
                                   index |-> Get(entry, "message_index").n])
  /\ UNCHANGED <<recorderVars, handlers>>

\* KeyboardInterrupt, caught by main
Interrupt ==
  /\ replay.pc \in {"iter", "wait", "send", "pass_end"}
  /\ replay' = [replay EXCEPT !.pc = "interrupted", !.at = replay.pc]
  /\ UNCHANGED <<recorderVars, handlers, sink>>

\* One session is recorded, then a replay of a log runs.
NextReplay ==
  \/ replay.pc = "idle" /\ Tick
  \/ replay.pc = "idle" /\ \E data \in Payloads : LogData(data)
  \/ replay.pc = "idle" /\ Shutdown
  \/ \E path \in DOMAIN files \cup {None} : \E speed \in Speeds : \E loop \in BOOLEAN :
        ReplayLog(path, speed, loop)
  \/ IterStart
  \/ Wait
  \/ \E outcome \in PostOutcomes : Send(outcome)
  \/ PassEnd
  \/ Interrupt

SpecReplay == Init /\ [][NextReplay]_vars

\* ------------------------------------------------------------- replay main
\* what GET /health can give: 200 with a JSON body, 200 with another body,
\* another status, no answer
HealthResults == {"ok", "not_json", "status", "exception"}

\* a health check that lets every server pass
check_server_health_always(result) == TRUE

\* check_server_health: True for a 200 whose body decodes, False otherwise
check_server_health(result) == result = "ok"

\* the name of a log file that does not exist
NoSuchFile == 0 - 2

\* --speed is any float, argparse does not look at its sign: the default,
\* zero and a negative one
CliSpeeds == { [num |-> 1, den |-> 1], [num |-> 0, den |-> 1], [num |-> 0 - 1, den |-> 1] }

\* sorted(log_dir.glob(...))[-1]
LatestLog(fs) == CHOOSE n \in DOMAIN fs : \A m \in DOMAIN fs : m <= n

\* main returns after logging an error
MainExit(r, err) == [r EXCEPT !.pc = "exit", !.error = err]

\* main() with action = replay, up to the while loop of replay_log.  When
\* main stops, the record keeps the arguments it has read by then (--log-file
\* is read only without --latest); when it calls replay_log, the arguments
\* of the call.
Main(health, latest, log_file, speed, loop) ==
  /\ replay.pc = "idle"
  /\ LET probed == [ReplayIdle EXCEPT !.health = health]
         chosen == [probed EXCEPT !.latest = latest,
                                  !.log_file = IF latest THEN None ELSE log_file]
         begin(path) == [replay_log_begin(files, path, speed, loop) EXCEPT !.health = health]
     IN replay' =
          IF ~check_server_health(health) THEN MainExit(probed, "Server is not responding")
          ELSE IF latest
          THEN IF DOMAIN files = {} THEN MainExit(chosen, "No log files found")
               ELSE begin(LatestLog(files))
          ELSE IF log_file # None THEN begin(log_file)
          ELSE MainExit(chosen, "Please specify --log-file or use --latest")
  /\ UNCHANGED <<recorderVars, handlers, sink>>


\* Sessions are recorded, then the replay program runs once, to its end.
NextMain ==
  \/ replay.pc = "idle" /\ Tick
  \/ replay.pc = "idle" /\ StartNewLog
  \/ replay.pc = "idle" /\ \E data \in TruthyPayloads : LogData(data)
  \/ \E health \in HealthResults : \E latest \in BOOLEAN :
     \E log_file \in DOMAIN files \cup {None, NoSuchFile} :
     \E speed \in CliSpeeds : \E loop \in BOOLEAN :
        Main(health, latest, log_file, speed, loop)
  \/ IterStart
  \/ Wait
  \/ \E outcome \in PostOutcomes : Send(outcome)
  \/ PassEnd

SpecMain == Init /\ [][NextMain]_vars

\* ------------------------------------------------------- writes that fail
\* a direct call of log_data(data) in which the flush of the entry raises
\* OSError; torn says whether the file took the head of the line
LogDataFault(data, torn) ==
  /\ server.message_count < MaxMsgs
  /\ server.log_handle.set \/ opened < MaxSessions
  /\ ~server.log_handle.set \/ ~server.log_handle.closed
  /\ Len(server.log_handle.pending) < MaxPending
  /\ LET r == log_data_fails(server, files, now, opened + 1, data, torn)
     IN /\ LogDataStep(data, r)
        /\ last' = Outcome("log_data", r.raised, 0, None)
  /\ UNCHANGED <<handlers, replayVars>>

\* The calls of the recorder, one at a time, on a disk that can be full.
NextFaulty ==
  \/ Tick
  \/ StartNewLog
  \/ \E data \in TruthyPayloads : LogData(data)
  \/ \E data \in TruthyPayloads : \E torn \in BOOLEAN : LogDataFault(data, torn)
  \/ Shutdown

SpecFaulty == Init /\ [][NextFaulty]_vars

\* ------------------------------------------------- a clock that is set back
\* time.time() is the wall clock: it can be set back between two records
ClockStepBack ==
  /\ now > 1
  /\ now' = now - 1
  /\ UNCHANGED <<server, files, opened, open_files, recorded, last>>
  /\ UNCHANGED <<handlers, replayVars>>

\* One session is recorded on a clock that can go back, then replayed.
NextSkew ==
  \/ replay.pc = "idle" /\ Tick
  \/ replay.pc = "idle" /\ ClockStepBack
  \/ replay.pc = "idle" /\ \E data \in TruthyPayloads : LogData(data)
  \/ \E path \in DOMAIN files : \E speed \in Speeds : \E loop \in BOOLEAN :
        ReplayLog(path, speed, loop)
  \/ IterStart
  \/ Wait
  \/ \E outcome \in PostOutcomes : Send(outcome)
  \/ PassEnd

SpecSkew == Init /\ [][NextSkew]_vars

\* ------------------------------------------------------------ damaged logs
\* lines that are no record: an empty line, a record cut short, and a line
\* that is JSON but no dict
JunkLines == { <<>>, <<TPunct("{"), TStr("server_timestamp")>>, <<TNum(5)>> }

\* a line load_log_file decodes to a dict
IsRecordLine(line) == LET r == Loads(line) IN r.ok /\ r.v.t = "obj"

JunkCount(lines) == Cardinality({ k \in 1..Len(lines) : ~IsRecordLine(lines[k]) })

\* the log file as replay finds it: a junk line stands before line pos + 1
Damage(name, pos, line) ==
  /\ name \in DOMAIN files
  /\ pos \in 0..Len(files[name])
  /\ JunkCount(files[name]) < MaxJunk
  /\ files' = [files EXCEPT ![name] =
                 SubSeq(@, 1, pos) \o <<line>> \o SubSeq(@, pos + 1, Len(@))]
  /\ UNCHANGED <<server, now, opened, open_files, recorded, last, handlers, replayVars>>

\* One session is recorded, its log is damaged, then a replay of it runs.
NextDamaged ==
  \/ replay.pc = "idle" /\ Tick
  \/ replay.pc = "idle" /\ \E data \in TruthyPayloads : LogData(data)
  \/ replay.pc = "idle" /\ Shutdown
  \/ replay.pc = "idle" /\ \E name \in DOMAIN files : \E pos \in 0..MaxMsgs + 2 :
                             \E line \in JunkLines : Damage(name, pos, line)
  \/ \E path \in DOMAIN files : \E speed \in Speeds : \E loop \in BOOLEAN :
        ReplayLog(path, speed, loop)
  \/ IterStart
  \/ Wait
  \/ \E outcome \in PostOutcomes : Send(outcome)
  \/ PassEnd

SpecDamaged == Init /\ [][NextDamaged]_vars

\* replay_log is sequential code: a statement that can run does run; sleeps
\* return and a POST returns or raises within its timeout.  Interrupt, the
\* operator's Ctrl-C, is under no obligation.
SpecReplayFair ==
  /\ SpecReplay
  /\ WF_vars(IterStart)
  /\ WF_vars(Wait)
  /\ WF_vars(\E outcome \in PostOutcomes : Send(outcome))
  /\ WF_vars(PassEnd)

\* ------------------------------------------------------------------ claims
\* the records of a log that decode to a dict
DecodedDicts(lines) ==
  LET all == [i \in 1..Len(lines) |-> Loads(lines[i])]
      ok == SelectSeq(all, LAMBDA r : r.ok /\ r.v.t = "obj")
  IN [i \in 1..Len(ok) |-> ok[i].v]

\* the data entries of a log: the records with a "data" member
DataEntriesOf(lines) == SelectSeq(DecodedDicts(lines), LAMBDA e : HasKey(e, "data"))

TypeOf(line) == Get(Loads(line).v, "type")

SessionOpen == server.log_handle.set /\ ~server.log_handle.closed
SessionClosed == ~SessionOpen

\* C1: within one session the data entries of the log carry message_index
\* 0, 1, ..., n-1 in write order and the k-th entry's payload is the k-th
\* recorded payload.
C1_IndicesAndPayloads ==
  server.log_handle.set =>
    LET es == DataEntriesOf(files[server.log_handle.path])
    IN /\ Len(es) = Len(recorded)
       /\ \A k \in 1..Len(es) :
            /\ Get(es[k], "message_index") = JNum(k - 1)
            /\ Get(es[k], "data") = recorded[k]

C1_Witness ==
  /\ Len(recorded) = 2
  /\ recorded[1] # recorded[2]
  /\ Len(files[server.log_handle.path]) = 3

\* C2: a call of start_new_log with a session open leaves the log of that
\* session with exactly the lines it had before the call.
C2_PriorLogKept ==
  [][ ((StartNewLog \/ Reset) /\ SessionOpen) =>
        files'[server.log_handle.path] = files[server.log_handle.path] ]_vars

\* C3: a call of start_new_log leaves a log holding only the metadata record
\* and a message counter of 0, and the record() that follows appends an entry
\* with message_index 0 to that log and changes no other file.
C3_FreshSession ==
  [][ /\ (last'.op \in {"start_new_log", "reset"}) =>
           /\ server'.message_count = 0
           /\ server'.log_handle.set /\ ~server'.log_handle.closed
           /\ server'.log_handle.path = server'.log_file
           /\ Len(files'[server'.log_file]) = 1
           /\ TypeOf(files'[server'.log_file][1]) = JStr("metadata")
      /\ ( /\ last.op \in {"start_new_log", "reset"}
           /\ \E d \in Payloads : (LogData(d) \/ (Control(d) /\ last'.status = 200)) ) =>
           /\ Len(files'[server.log_file]) = 2
           /\ files'[server.log_file][1] = files[server.log_file][1]
           /\ Get(Loads(files'[server.log_file][2]).v, "message_index") = JNum(0)
           /\ Get(Loads(files'[server.log_file][2]).v, "data") = recorded'[1]
           /\ \A n \in DOMAIN files \ {server.log_file} : files'[n] = files[n]
    ]_vars

C3_Witness ==
  /\ opened = 2
  /\ \E n \in DOMAIN files : n # server.log_file /\ Len(files[n]) > 1
  /\ last.op = "control"
  /\ Len(recorded) = 1
  /\ Len(files[server.log_file]) = 2

\* C4: shutdown() on a recorder whose session is already closed raises
\* nothing and leaves the logs as they are.
C4_ShutdownIdempotent ==
  [][ (Shutdown /\ SessionClosed) => (~last'.raised /\ files' = files) ]_vars

\* C5: record() on a recorder without an open session opens a session and
\* appends the entry to it.
C5_RecordOpensSession ==
  [][ ((\E d \in Payloads : LogData(d)) /\ SessionClosed) =>
        /\ ~last'.raised
        /\ server'.log_handle.set /\ ~server'.log_handle.closed
        /\ Len(DataEntriesOf(files'[server'.log_handle.path])) = 1
    ]_vars

\* C6: shutdown() with a session open appends one session_end record whose
\* total_messages is the number of data entries of that log, and closes the file.
C6_SessionEndCount ==
  [][ (Shutdown /\ SessionOpen) =>
        LET p == server.log_handle.path
            end == files'[p][Len(files'[p])]
        IN /\ Len(files'[p]) = Len(files[p]) + 1
           /\ SubSeq(files'[p], 1, Len(files[p])) = files[p]
           /\ TypeOf(end) = JStr("session_end")
           /\ Get(Loads(end).v, "total_messages") = JNum(Len(DataEntriesOf(files[p])))
           /\ server'.log_handle.closed
           /\ \A n \in DOMAIN files \ {p} : files'[n] = files[n]
    ]_vars

C6_Witness ==
  /\ last.op = "shutdown"
  /\ ~last.raised
  /\ server.log_handle.set /\ server.log_handle.closed
  /\ Len(recorded) = 2
  /\ Len(files[server.log_handle.path]) = 4

\* C7: the message_index in the response to a successful POST /control is
\* the message_index of the log entry written for that request.
C7_ResponseIndex ==
  (last.op = "control" /\ last.status = 200) =>
    LET lines == files[server.log_handle.path]
    IN Get(Loads(lines[Len(lines)]).v, "message_index") = JNum(last.message_index)

\* C8: with handlers running concurrently, the data entries of the open log
\* carry the indices 0, 1, ..., n-1 in file order: none twice, none skipped.
C8_ConcurrentIndices ==
  server.log_handle.set =>
    LET es == DataEntriesOf(files[server.log_handle.path])
    IN \A k \in 1..Len(es) : Get(es[k], "message_index").n = k - 1

\* C9: within a pass the replay posts one entry per request, each request
\* carrying the payload of one data entry of the log, and an entry posted
\* after another one of the same pass has the larger message_index.
C9_DispatchOrder ==
  [][ /\ Len(sink') \in {Len(sink), Len(sink) + 1}
      /\ SubSeq(sink', 1, Len(sink)) = sink
      /\ Len(sink') = Len(sink) + 1 =>
           LET sent == sink'[Len(sink')]
               es == DataEntriesOf(files[replay.path])
           IN /\ \E k \in 1..Len(es) :
                    /\ Get(es[k], "message_index").n = sent.index
                    /\ Get(es[k], "data") = Loads(sent.body).v
              /\ (Len(sink) > 0 /\ sink[Len(sink)].pass = sent.pass) =>
                    sent.index > sink[Len(sink)].index
    ]_vars

C9_Witness ==
  /\ replay.pc = "done"
  /\ Len(sink) = 2
  /\ sink[1].pass = sink[2].pass
  /\ sink[1].index = 0 /\ sink[2].index = 1

\* C10: a replay pass over the log of a session posts exactly the payloads
\* handed to record(), one request per recorded entry, in order.
C10_RoundTrip ==
  (replay.pc = "done" /\ server.log_handle.set /\ replay.path = server.log_handle.path) =>
    /\ Len(sink) = Len(recorded)
    /\ \A k \in 1..Len(sink) : Loads(sink[k].body).v = recorded[k]

\* a log without its session_end records: the log of a session that was killed
StripEnd(lines) == SelectSeq(lines, LAMBDA l : TypeOf(l) # JStr("session_end"))

IsMetadataRecord(e) == Get(e, "type") \in {JStr("metadata"), JStr("session_end")}

\* C11: the entries the replay selected are data entries of the log;
\* every request it posts carries the payload of one of them, never a
\* metadata or session_end record; a pass posts no more
\* requests than the log has data entries; and the entries selected for
\* dispatch are the same, in the same order, for the log without its
\* session_end record.
C11_MetadataNeverDispatched ==
  (replay.pc # "idle" /\ replay.path \in DOMAIN files) =>
    LET lines == files[replay.path]
        data == replay.data_entries
        killed == [files EXCEPT ![replay.path] = StripEnd(lines)]
    IN /\ replay.pc # "raised"
       /\ replay.pc = "iter" =>
            LET logged == DataEntriesOf(lines)
            IN \A k \in 1..Len(data) : \E j \in 1..Len(logged) : data[k] = logged[j]
       /\ \A k \in 1..Len(sink) :
            LET body == Loads(sink[k].body).v
            IN \E j \in 1..Len(data) :
                 /\ ~IsMetadataRecord(data[j])
                 /\ Get(data[j], "message_index").n = sink[k].index
                 /\ Get(data[j], "data") = body
       /\ \A p \in 1..MaxPasses :
            Cardinality({ k \in 1..Len(sink) : sink[k].pass = p }) <= Len(data)
       /\ replay.pc = "iter" =>
            replay.data_entries = DataEntries(load_log_file(killed, replay.path).entries)

C11_Witness ==
  /\ replay.pc = "done"
  /\ Len(sink) = 2
  /\ replay.path \in DOMAIN files
  /\ TypeOf(files[replay.path][Len(files[replay.path])]) = JStr("session_end")
  /\ TypeOf(files[replay.path][1]) = JStr("metadata")

\* the recorded delay of the entry the replay is at, from the first entry
DelayOfCurrent ==
  Get(replay.data_entries[replay.i + 1], "server_timestamp").n
    - Get(replay.data_entries[1], "server_timestamp").n

\* C13: each pass takes its own T0 when it starts; an entry is posted only
\* when the time elapsed since that T0 has reached (server_timestamp -
\* first_ts) / speed; and a sleep ends at the first tick at which it has,
\* whenever the previous POST returned.
C13_NotBeforeTarget ==
  [][ /\ IterStart => (replay'.pc = "wait" => replay'.start_time = now)
      /\ (\E o \in PostOutcomes : Send(o)) =>
           (now - replay.start_time) * replay.speed.num >= DelayOfCurrent * replay.speed.den
      /\ (Wait /\ now' # now) =>
           /\ (now' - replay.start_time) * replay.speed.num >= DelayOfCurrent * replay.speed.den
           /\ (now' - 1 - replay.start_time) * replay.speed.num < DelayOfCurrent * replay.speed.den
    ]_vars

C13_Witness ==
  /\ replay.pc = "send"
  /\ replay.iteration = 2
  /\ replay.i = 1
  /\ DelayOfCurrent = 1
  /\ replay.speed = [num |-> 2, den |-> 1]
  /\ now = replay.start_time + 1

\* the message_index of the requests of pass p, in the order they were posted
PassIndices(p) ==
  LET items == SelectSeq(sink, LAMBDA x : x.pass = p)
  IN [j \in 1..Len(items) |-> items[j].index]

\* the message_index of the first k data entries of the replay
FirstIndices(k) == [j \in 1..k |-> Get(replay.data_entries[j], "message_index").n]

\* C14: whatever the answers of the sink, the replay raises nothing and each
\* pass posts every data entry once, in order: a finished pass has posted all
\* of them, the running pass the entries before the current one.
C14_EveryEntryOnce ==
  /\ replay.path \in DOMAIN files => replay.pc # "raised"
  /\ (replay.pc \in {"iter", "wait", "send", "pass_end", "done"} /\ replay.iteration >= 1) =>
       \A p \in 1..replay.iteration :
         PassIndices(p) =
           FirstIndices(IF p < replay.iteration \/ replay.pc \in {"iter", "pass_end", "done"}
                        THEN Len(replay.data_entries) ELSE replay.i)

C14_Witness ==
  /\ replay.pc = "pass_end"
  /\ Len(replay.data_entries) = 2
  /\ replay.failed = 2
  /\ PassIndices(replay.iteration) = <<0, 1>>

\* the first tick at which start_time + (server_timestamp - first_ts) / speed
\* has passed, for the entry the replay is at
ScheduledAt ==
  replay.start_time
    + ((DelayOfCurrent * replay.speed.den + replay.speed.num - 1) \div replay.speed.num)

\* C15: a POST, failed or not, leaves the anchor of the pass (start_time,
\* first_timestamp, speed, the entries) as it was, and the POST of the next
\* entry starts at the time scheduled from that anchor, or at once when that
\* time has passed: the answers of earlier POSTs do not enter.
C15_FailureKeepsSchedule ==
  [][ /\ (\E o \in PostOutcomes : Send(o)) =>
           /\ replay'.start_time = replay.start_time
           /\ replay'.first_timestamp = replay.first_timestamp
           /\ replay'.speed = replay.speed
           /\ replay'.data_entries = replay.data_entries
      /\ Wait => now' = (IF now >= ScheduledAt THEN now ELSE ScheduledAt)
    ]_vars

C15_Witness ==
  /\ replay.pc = "send"
  /\ replay.i = 1
  /\ replay.failed = 1
  /\ DelayOfCurrent = 1
  /\ replay.speed = [num |-> 1, den |-> 1]
  /\ now = replay.start_time + 1

\* C16: without loop, a replay that entered its loop returns (unless it is
\* interrupted), and when it has returned it made one pass and one POST per
\* data entry.  With loop it does not return: the end of a pass sleeps the
\* pause of 2 seconds and goes back to the head of the loop, and the next pass
\* starts, until the interrupt.
C16_Termination ==
  /\ (replay.pc = "iter" /\ ~replay.loop) ~> (replay.pc \in {"done", "interrupted"})
  /\ [](replay.pc = "done" /\ replay.data_entries # <<>> =>
          /\ ~replay.loop
          /\ replay.iteration = 1
          /\ Len(sink) = Len(replay.data_entries))
  /\ [][PassEnd /\ replay.loop =>
          /\ replay'.pc = "iter"
          /\ now' = now + 2 * TicksPerSecond
          /\ sink' = sink]_vars
  /\ (replay.pc = "iter" /\ replay.loop /\ replay.iteration < MaxPasses)
        ~> (replay.pc \in {"wait", "interrupted"})

C16_Witness ==
  /\ replay.pc = "done"
  /\ ~replay.loop
  /\ replay.iteration = 1
  /\ Len(replay.data_entries) = 2
  /\ Len(sink) = 2

\* C17: a replay interrupted between two passes, in the pause or before the
\* next pass takes its T0, has posted every data entry once in each pass made
\* so far, k * n requests after k passes, and posts nothing once interrupted.
C17_CancelBetweenPasses ==
  /\ [](replay.pc = "interrupted" /\ replay.at \in {"pass_end", "iter"} =>
          /\ Len(sink) = replay.iteration * Len(replay.data_entries)
          /\ \A p \in 1..replay.iteration :
               PassIndices(p) = FirstIndices(Len(replay.data_entries)))
  /\ [][replay.pc = "interrupted" => sink' = sink /\ replay' = replay]_vars
  /\ [][Interrupt => sink' = sink]_vars

C17_Witness ==
  /\ replay.pc = "interrupted"
  /\ replay.at = "pass_end"
  /\ replay.loop
  /\ replay.iteration = 1
  /\ Len(replay.data_entries) = 2
  /\ Len(sink) = 2

\* C18: a replay started with a speed of zero or less posts nothing.
C18_InvalidSpeedFatal ==
  (replay.pc # "idle" /\ replay.speed.num <= 0) => sink = <<>>

\* C19: when the health probe fails, when no log is selected (no --log-file
\* and no --latest, or --latest with no log in the directory) or when the log
\* file does not exist, the program stops before the loop of replay_log: no
\* pass starts, no T0 is taken and nothing is posted.
C19_AbortBeforeDispatch ==
  replay.pc # "idle" =>
    /\ replay.health # "ok" =>
         replay.pc = "exit" /\ sink = <<>> /\ replay.iteration = 0
    /\ replay.path = None =>
         replay.pc = "exit" /\ sink = <<>> /\ replay.iteration = 0
    /\ (replay.path # None /\ replay.path \notin DOMAIN files) =>
         /\ replay.pc = "raised" /\ replay.error = "FileNotFoundError"
         /\ sink = <<>> /\ replay.iteration = 0

C19_Witness ==
  /\ replay.pc = "exit"
  /\ replay.health = "status"
  /\ server.log_handle.set
  /\ Len(recorded) = 2
  /\ sink = <<>>

\* C20: replay_log of a log without data entries returns at once, raising
\* nothing and posting nothing, with loop as without; it has returned, so no
\* pass follows.
C20_ZeroEntriesNoOp ==
  /\ [][ ( /\ replay.pc = "idle"
           /\ replay'.pc # "idle"
           /\ replay'.path \in DOMAIN files
           /\ DataEntriesOf(files[replay'.path]) = <<>> )
         => (replay'.pc = "done" /\ replay'.error = "" /\ sink' = <<>>) ]_vars
  /\ [][ replay.pc = "done" => (replay' = replay /\ sink' = sink) ]_vars

C20_Witness ==
  /\ replay.pc = "done"
  /\ replay.loop
  /\ replay.iteration = 0
  /\ replay.path \in DOMAIN files
  /\ Len(files[replay.path]) = 1
  /\ sink = <<>>

\* a log without the lines that are no record
Cleaned(lines) == SelectSeq(lines, IsRecordLine)

\* C12: a replay of a log with lines that are no record raises nothing and
\* selects for dispatch the entries it selects from the log without them.
C12_MalformedSkipped ==
  (replay.pc # "idle" /\ replay.path \in DOMAIN files) =>
    /\ replay.pc # "raised"
    /\ replay.pc = "iter" =>
         replay.data_entries
           = DataEntries(load_log_file([files EXCEPT ![replay.path] = Cleaned(@)],
                                       replay.path).entries)

\* C21: the data entries of the open log are the entries of the log_data
\* calls that returned, numbered 0, 1, ..., n-1 in that order, and the counter
\* is n: a call that raised left no entry and took no index.
C21_FailedWriteIsolated ==
  SessionOpen =>
    LET es == DataEntriesOf(WholeLines(server.log_handle, files))
    IN /\ Len(es) = Len(recorded)
       /\ server.message_count = Len(recorded)
       /\ \A k \in 1..Len(es) :
            /\ Get(es[k], "message_index") = JNum(k - 1)
            /\ Get(es[k], "data") = recorded[k]

\* the position of the session_end record in a log, 0 without one
SessionEndAt(lines) ==
  LET at == { k \in 1..Len(lines) : TypeOf(lines[k]) = JStr("session_end") }
  IN IF at = {} THEN 0 ELSE CHOOSE k \in at : \A j \in at : k <= j

\* C22: with /reset or shutdown() running beside a request, every log holds
\* its data entries under the indices 0, 1, ..., n-1 in file order and none
\* after its session_end record, and no request writes to a closed file.
C22_AsIfSerialized ==
  /\ \A name \in DOMAIN files :
       LET es == DataEntriesOf(files[name])
           end == SessionEndAt(files[name])
       IN /\ \A k \in 1..Len(es) : Get(es[k], "message_index") = JNum(k - 1)
          /\ end > 0 => end = Len(files[name])
  /\ ~(handlers[RaceHandler].pc = "write" /\ server.log_handle.closed)

\* C23: every log file starts with the metadata record, and a session_end
\* record, when there is one, is the last line of its file: there is one at
\* most and no data entry follows it.
C23_LogShape ==
  \A name \in DOMAIN files :
    LET lines == files[name]
        end == SessionEndAt(lines)
    IN /\ Len(lines) >= 1
       /\ TypeOf(lines[1]) = JStr("metadata")
       /\ end > 0 => end = Len(lines)
       /\ \A k \in 2..Len(lines) : TypeOf(lines[k]) # JStr("metadata")

C23_Witness ==
  /\ last.op = "log_data"
  /\ last.raised
  /\ server.log_handle.closed
  /\ Len(files[server.log_handle.path]) = 3
  /\ SessionEndAt(files[server.log_handle.path]) = 3
  /\ Cardinality(DOMAIN files) = 2

\* C24: at most one file object is open, the one the handle attribute holds,
\* and the counter is the number of data entries in the log of that handle
\* (0 before the first log is opened).
C24_OneOpenSession ==
  /\ Cardinality(open_files) <= 1
  /\ open_files = (IF SessionOpen THEN {server.log_handle.id} ELSE {})
  /\ IF server.log_handle.set
     THEN server.message_count = Len(DataEntriesOf(files[server.log_handle.path]))
     ELSE server.message_count = 0

C24_Witness ==
  /\ last.op \in {"start_new_log", "reset"}
  /\ opened = 2
  /\ open_files = {2}
  /\ server.message_count = 0
  /\ \E name \in DOMAIN files : Len(DataEntriesOf(files[name])) = 2

\* C26: a POST /control answered with 400 or 500 leaves the recorder as it
\* was: the same files with the same lines, the same handle, the same counter.
C26_ErrorLeavesState ==
  [][ ((\E data \in Bodies : Control(data)) /\ last'.status \in {400, 500})
        => (files' = files /\ server' = server /\ open_files' = open_files) ]_vars

\* C25: the replay sleeps only when the scaled delay of the entry is greater
\* than the time elapsed since T0 of the pass, and then to the time scheduled
\* from that T0; otherwise (the first entry, an entry whose time has passed
\* during a slow POST, an entry stamped before the first one) the POST starts
\* at once.  The clock never goes back over a wait.
C25_NoNegativeWait ==
  [][ (Wait /\ replay'.pc = "send") =>
        LET target == DelayOfCurrent * replay.speed.den
            elapsed == (now - replay.start_time) * replay.speed.num
        IN /\ now' >= now
           /\ now' > now => target > elapsed
           /\ target <= elapsed => now' = now
           /\ target > elapsed => now' = ScheduledAt
           /\ replay'.start_time = replay.start_time
    ]_vars

C25_Witness ==
  /\ replay.pc = "send"
  /\ replay.i = 1
  /\ DelayOfCurrent < 0
  /\ Len(sink) = 1
  /\ now = replay.start_time

====
